---- MODULE Spec2Model ----
(***************************************************************************)
(* rvis: audio visualiser.  A GStreamer pipeline decodes a file to S16     *)
(* mono samples; the appsink "new-sample" callback (pipeline.rs) collects  *)
(* FFT_SIZE samples, runs a forward FFT in place and sends the normalised  *)
(* upper half of the spectrum on a bounded std::sync::mpsc channel.  The   *)
(* event loop (main.rs) owns the optional pipeline handle, reacts to key   *)
(* events (Q, A, S, D, K, W, modifiers) and on every frame tick takes at   *)
(* most one frame from the channel with try_recv.                          *)
(*                                                                         *)
(* Numbers.  A complex value is a pair <<re, im>> of integers.  Its norm   *)
(* is the f32 that hypot returns (the nearest to the exact root), held as  *)
(* its integer part.  A bin value x / 5 is held as the integer Floor(x)    *)
(* ("fifths", rounded down): x changes its integer part where the norm     *)
(* passes 8 * 10^k, an integer, so Floor(x) and the sign test x < 0.0 are  *)
(* exact; log10(0) = -inf is NegInf.                                       *)
(***************************************************************************)
EXTENDS Integers, Sequences, FiniteSets, TLC

(* ------------------------------ constants ------------------------------ *)

\* pipeline.rs:9   pub static FFT_SIZE: usize = 800;
FFT_SIZE == 800

\* main.rs:78   mpsc::sync_channel(22000): the capacity, scaled down so that a
\* full channel is reachable.
ChanCapacity == 2

\* Pipelines constructed in one run (startup's included), callback
\* invocations of all pipelines together with the whole program, and of the
\* one pipeline with the analyzer alone: caps on unbounded counters.
MaxPipelines == 2
MaxCallbacks == 4
MaxIngestCallbacks == 2

Pipes == 1 .. MaxPipelines

\* Option::None for the pipeline handle.
NoPipeline == 0

\* Sample values a decoded buffer may hold (i16): the extremes, silence and
\* a quiet signal.
SampleVals == {-32768, 0, 1000, 32767}

\* Buffers the appsink delivers while the whole program is studied: each one
\* completes a window and starts the next, at full scale.
ChunkSizes == {FFT_SIZE + 1}
PlaybackSampleVals == {32767}

\* Buffer lengths used when the analyzer is studied alone: every way of
\* reaching, touching and crossing a window boundary.
IngestChunkSizes ==
    {0, 1, 2, FFT_SIZE - 1, FFT_SIZE, FFT_SIZE + 1, 2 * FFT_SIZE + 1}

Abs(n) == IF n < 0 THEN -n ELSE n

(* ------------------------------ analyzer ------------------------------- *)

\* A Vec is held as the list of its runs: <<n, x>> stands for n elements x
\* in a row, and no two neighbouring runs have the same x.  Elements are
\* counted from 1 here, from 0 in the source.

\* Two lists of runs put end to end.
JoinRuns(r, s) ==
    IF r # <<>> /\ s # <<>> /\ r[Len(r)][2] = s[1][2]
    THEN SubSeq(r, 1, Len(r) - 1)
            \o << <<r[Len(r)][1] + s[1][1], s[1][2]>> >> \o Tail(s)
    ELSE r \o s

\* The number of elements of runs lo .. hi of r.
RECURSIVE CountRange(_, _, _)
CountRange(r, lo, hi) ==
    IF lo > hi THEN 0
    ELSE IF lo = hi THEN r[lo][1]
    ELSE LET mid == (lo + hi) \div 2
         IN  CountRange(r, lo, mid) + CountRange(r, mid + 1, hi)

\* Vec::len
Count(r) == CountRange(r, 1, Len(r))

\* Where the first m elements of runs lo .. hi of r end: <<j, c>>, with j
\* the first of these runs that does not lie within them (hi + 1 when all
\* do) and c the number of elements of the runs before it.
RECURSIVE LocateRange(_, _, _, _)
LocateRange(r, lo, hi, m) ==
    IF lo > hi THEN <<lo, 0>>
    ELSE IF lo = hi
    THEN IF r[lo][1] <= m THEN <<lo + 1, r[lo][1]>> ELSE <<lo, 0>>
    ELSE LET mid == (lo + hi) \div 2
             left == CountRange(r, lo, mid)
         IN  IF left <= m
             THEN LET q == LocateRange(r, mid + 1, hi, m - left)
                  IN  <<q[1], left + q[2]>>
             ELSE LocateRange(r, lo, mid, m)

Locate(r, m) == LocateRange(r, 1, Len(r), m)

\* r[i]: element i of r.
At(r, i) == r[Locate(r, i - 1)[1]][2]

\* The first m elements of r.
Take(r, m) ==
    LET q == Locate(r, m)
        j == q[1]
        part == m - q[2]
    IN  IF j > Len(r) \/ part <= 0 THEN SubSeq(r, 1, j - 1)
        ELSE Append(SubSeq(r, 1, j - 1), <<part, r[j][2]>>)

\* r without its first m elements.
Drop(r, m) ==
    LET q == Locate(r, m)
        j == q[1]
        part == m - q[2]
    IN  IF j > Len(r) THEN <<>>
        ELSE IF part <= 0 THEN SubSeq(r, j, Len(r))
        ELSE << <<r[j][1] - part, r[j][2]>> >> \o SubSeq(r, j + 1, Len(r))

\* r with elements lo + 1 .. lo + k set to x (indices lo .. lo + k - 1 of
\* the source); what would fall beyond the end of the buffer is not stored.
Store(r, lo, k, x) ==
    LET m == IF lo + k > FFT_SIZE THEN FFT_SIZE - lo ELSE k
    IN  IF m <= 0 THEN r
        ELSE JoinRuns(JoinRuns(Take(r, lo), << <<m, x>> >>), Drop(r, lo + m))

\* The runs of elements lo .. hi of the function f.
RECURSIVE PackRange(_, _, _)
PackRange(f, lo, hi) ==
    IF lo > hi THEN <<>>
    ELSE IF lo = hi THEN << <<1, f[lo]>> >>
    ELSE LET mid == (lo + hi) \div 2
         IN  JoinRuns(PackRange(f, lo, mid), PackRange(f, mid + 1, hi))

\* The runs of the sequence f.
Pack(f) == PackRange(f, 1, Len(f))

\* pipeline.rs:26-32   vec![Complex { re: 0.0, im: 0.0 }; FFT_SIZE]
ZeroBuffer == << <<FFT_SIZE, <<0, 0>>>> >>

\* A slot of fft_buffer that holds no sample of the current window: an
\* initial zero or a value the FFT left there.
NoSample == -1

\* No slot holds a sample.  The origin of a slot is kept as <<c>>, the
\* position in the stream of the sample it holds less the index of the slot,
\* so that samples stored one after the other make one run; <<>> stands
\* for no sample.
NoOrigin == << <<FFT_SIZE, <<>>>> >>

\* The position in the sample stream (from 0) of the sample slot i holds,
\* or NoSample.
SlotOrigin(origin, i) ==
    LET c == At(origin, i)
    IN  IF c = <<>> THEN NoSample ELSE c[1] + (i - 1)

\* pipeline.rs:26-33   the state the callback closure captures.  Beside it,
\* as history: origin tells of each slot the sample it holds (SlotOrigin);
\* hi is the highest index (from 0) fft_buffer was ever written at, or -1.
NewAnalyzer ==
    [pos |-> 0, fft_buffer |-> ZeroBuffer, origin |-> NoOrigin,
     hi |-> NoSample]

\* pipeline.rs:191   Complex::new(*sample as f32, 0.0 as f32)
ComplexOf(sample) == <<sample, 0>>

\* The quarter wave of the twiddle factors of a transform of FFT_SIZE points
\* (pipeline.rs:25, plan_fft_forward(FFT_SIZE)): CosTable[j + 1] is
\* cos(2 pi j / FFT_SIZE) in millionths, for j = 0 .. FFT_SIZE / 4.
CosTable ==
    << 1000000, 999969, 999877, 999722, 999507, 999229, 998890, 998489,
       998027, 997503, 996917, 996270, 995562, 994792, 993961, 993068,
       992115, 991100, 990024, 988886, 987688, 986429, 985109, 983729,
       982287, 980785, 979223, 977600, 975917, 974173, 972370, 970506,
       968583, 966600, 964557, 962455, 960294, 958073, 955793, 953454,
       951057, 948600, 946085, 943512, 940881, 938191, 935444, 932639,
       929776, 926857, 923880, 920845, 917755, 914607, 911403, 908143,
       904827, 901455, 898028, 894545, 891007, 887413, 883766, 880063,
       876307, 872496, 868632, 864713, 860742, 856718, 852640, 848510,
       844328, 840094, 835807, 831470, 827081, 822641, 818150, 813608,
       809017, 804376, 799685, 794944, 790155, 785317, 780430, 775496,
       770513, 765483, 760406, 755282, 750111, 744894, 739631, 734323,
       728969, 723570, 718126, 712639, 707107, 701531, 695913, 690251,
       684547, 678801, 673013, 667183, 661312, 655400, 649448, 643456,
       637424, 631353, 625243, 619094, 612907, 606682, 600420, 594121,
       587785, 581413, 575005, 568562, 562083, 555570, 549023, 542442,
       535827, 529179, 522499, 515786, 509041, 502266, 495459, 488621,
       481754, 474856, 467930, 460974, 453990, 446979, 439939, 432873,
       425779, 418660, 411514, 404344, 397148, 389928, 382683, 375416,
       368125, 360811, 353475, 346117, 338738, 331338, 323917, 316477,
       309017, 301538, 294040, 286525, 278991, 271440, 263873, 256289,
       248690, 241075, 233445, 225801, 218143, 210472, 202787, 195090,
       187381, 179661, 171929, 164187, 156434, 148672, 140901, 133121,
       125333, 117537, 109734, 101924, 94108, 86286, 78459, 70627,
       62791, 54950, 47106, 39260, 31411, 23560, 15707, 7854,
       0 >>

\* cos(2 pi j / FFT_SIZE) and sin(2 pi j / FFT_SIZE) in millionths, any j >= 0.
Cos(j) ==
    LET r == j % FFT_SIZE
        q == FFT_SIZE \div 4
    IN  IF r <= q THEN CosTable[r + 1]
        ELSE IF r <= 2 * q THEN -CosTable[2 * q - r + 1]
        ELSE IF r <= 3 * q THEN -CosTable[r - 2 * q + 1]
        ELSE CosTable[4 * q - r + 1]

Sin(j) == Cos(j + 3 * (FFT_SIZE \div 4))

\* v * x / 1000000 to the nearest integer, for x in millionths, computed
\* in two halves to stay within 32 bits.
MulScale(v, x) ==
    LET sign == IF (v < 0) = (x < 0) THEN 1 ELSE -1
        a == Abs(v)
        y == Abs(x)
        t == a * (y \div 1000) + (a * (y % 1000)) \div 1000
    IN  sign * ((t + 500) \div 1000)

\* d * w^j for a complex d and w = exp(-2 pi i / FFT_SIZE).
Rotate(d, j) ==
    <<MulScale(d[1], Cos(j)) + MulScale(d[2], Sin(j)),
      MulScale(d[2], Cos(j)) - MulScale(d[1], Sin(j))>>

\* The slots of runs lo .. hi of buf that do not hold b, each with what it
\* holds, in order; run lo starts at slot `at`.
RECURSIVE Differing(_, _, _, _, _)
Differing(buf, lo, hi, at, b) ==
    IF lo > hi THEN <<>>
    ELSE IF lo = hi
    THEN IF buf[lo][2] = b THEN <<>>
         ELSE [m \in 1 .. buf[lo][1] |-> <<at + m - 1, buf[lo][2]>>]
    ELSE LET mid == (lo + hi) \div 2
         IN  Differing(buf, lo, mid, at, b)
                \o Differing(buf, mid + 1, hi,
                             at + CountRange(buf, lo, mid), b)

\* How many slots of runs lo .. hi of buf do not hold b.
RECURSIVE CountDiffering(_, _, _, _)
CountDiffering(buf, lo, hi, b) ==
    IF lo > hi THEN 0
    ELSE IF lo = hi THEN (IF buf[lo][2] = b THEN 0 ELSE buf[lo][1])
    ELSE LET mid == (lo + hi) \div 2
         IN  CountDiffering(buf, lo, mid, b)
                + CountDiffering(buf, mid + 1, hi, b)

\* The sum over entries lo .. hi of ds, each a <<slot, x>>, of
\* (x - b) * w^(k*(slot-1)).
RECURSIVE SumTerms(_, _, _, _, _)
SumTerms(b, ds, k, lo, hi) ==
    IF lo > hi THEN <<0, 0>>
    ELSE IF lo = hi
    THEN Rotate(<<ds[lo][2][1] - b[1], ds[lo][2][2] - b[2]>>,
                k * (ds[lo][1] - 1))
    ELSE LET mid == (lo + hi) \div 2
             l == SumTerms(b, ds, k, lo, mid)
             r == SumTerms(b, ds, k, mid + 1, hi)
         IN  <<l[1] + r[1], l[2] + r[2]>>

\* Bin i (from 1) of the transform of a buffer, given the value b and the
\* list ds of the slots that differ from it.
DftBin(b, ds, i) ==
    LET t == SumTerms(b, ds, i - 1, 1, Len(ds))
    IN  IF i = 1
        THEN <<FFT_SIZE * b[1] + t[1], FFT_SIZE * b[2] + t[2]>>
        ELSE t

\* pipeline.rs:171   fft.process(&mut fft_buffer): the forward DFT of the
\* buffer, X[k] = sum over n of x[n] * w^(k n), unnormalised, each product
\* rounded to the nearest integer.  The sum is taken as FFT_SIZE * b in bin 0
\* plus the sum of (x[n] - b) * w^(k n) over the slots that differ from b,
\* the value most slots hold, which is the same number.  When no slot
\* differs from b every bin but the first is the sum over no slot.
Dft(buf) ==
    LET vals == {buf[j][2] : j \in 1 .. Len(buf)}
        base == CHOOSE c \in vals :
                    \A e \in vals :
                        CountDiffering(buf, 1, Len(buf), c)
                            <= CountDiffering(buf, 1, Len(buf), e)
    IN  CHOOSE out \in
            {IF ds = <<>>
             THEN JoinRuns(<< <<1, DftBin(b, ds, 1)>> >>,
                           << <<FFT_SIZE - 1, DftBin(b, ds, 2)>> >>)
             ELSE Pack([i \in 1 .. FFT_SIZE |-> DftBin(b, ds, i)]) :
                 b \in {base}, ds \in {Differing(buf, 1, Len(buf), 1, base)}} :
            TRUE

\* Numbers beyond 32 bits are held in three limbs <<c2, c1, c0>>, standing
\* for c2 * Limb^2 + c1 * Limb + c0.
Limb == 4096

\* x * x in limbs, not yet carried, for 0 <= x < 2^26.
Square(x) ==
    LET h == x \div Limb
        l == x % Limb
    IN  <<h * h, 2 * h * l, l * l>>

\* The limbs of t carried, so that c1 and c0 are below Limb.
Carry(t) ==
    LET c1 == t[2] + t[3] \div Limb
    IN  <<t[1] + c1 \div Limb, c1 % Limb, t[3] % Limb>>

\* s <= t for carried limbs.
LimbsLeq(s, t) ==
    \/ s[1] < t[1]
    \/ s[1] = t[1] /\ s[2] < t[2]
    \/ s[1] = t[1] /\ s[2] = t[2] /\ s[3] <= t[3]

\* re^2 + im^2 in carried limbs.
NormSqr(v) ==
    LET a == Square(Abs(v[1]))
        b == Square(Abs(v[2]))
    IN  Carry(<<a[1] + b[1], a[2] + b[2], a[3] + b[3]>>)

\* s - t for carried limbs that differ by less than 2^31.
LimbsDiff(s, t) ==
    (s[1] - t[1]) * Limb * Limb + (s[2] - t[2]) * Limb + (s[3] - t[3])

\* Floor(sqrt(n)) for n in carried limbs, searched between lo and hi
\* (lo * lo <= n < hi * hi).
RECURSIVE ISqrt(_, _, _)
ISqrt(n, lo, hi) ==
    IF hi - lo <= 1 THEN lo
    ELSE LET mid == (lo + hi) \div 2
         IN  IF LimbsLeq(Carry(Square(mid)), n)
             THEN ISqrt(n, mid, hi) ELSE ISqrt(n, lo, mid)

\* f32 has a significand of 24 bits: a value in [2^e, 2^(e+1)) is a
\* multiple of 2^e / F32Mantissa.
F32Mantissa == 8388608

\* The largest power of two that is at most m, for m >= b, b a power of two.
RECURSIVE Binade(_, _)
Binade(m, b) == IF 2 * b > m THEN b ELSE Binade(m, 2 * b)

\* The f32 nearest to the integer m >= 0, ties to the even significand:
\* m itself below 2^24, the nearest multiple of the spacing from there on.
NearestF32(m) ==
    IF m < 2 * F32Mantissa THEN m
    ELSE LET u == Binade(m, 1) \div F32Mantissa
             q == m \div u
             r == m % u
         IN  IF 2 * r < u \/ (2 * r = u /\ q % 2 = 0)
             THEN q * u ELSE (q + 1) * u

\* pipeline.rs:180   v.norm() on Complex<f32>: hypot(re, im), the f32
\* nearest to sqrt(re^2 + im^2), held as its integer part.  With s the
\* exact root and i = Floor(s):
\*   below 2^24 the integers are f32 values and the f32 values next to
\*   i + 1 are u = 2^e / F32Mantissa apart (2^e <= i < 2^(e+1)), so the
\*   result reaches i + 1 exactly when s > i + 1 - u / 2, which with
\*   d = (i + 1)^2 - n is d * (2 / u) <= 2 * i; otherwise its integer part
\*   is i;
\*   from 2^24 on the f32 values are the multiples of u >= 2 and the result
\*   is the nearest of them, a root on the midpoint going to the even
\*   significand.
\* The components are taken as the f32 values the buffer holds.
Norm(v) ==
    LET re == NearestF32(Abs(v[1]))
        im == NearestF32(Abs(v[2]))
        n == NormSqr(<<re, im>>)
        i == ISqrt(n, 0, Limb * Limb * 4)
    IN  IF im = 0 THEN re
        ELSE IF re = 0 THEN im
        ELSE IF i < 2 * F32Mantissa
        THEN LET d == LimbsDiff(Carry(Square(i + 1)), n)
                 perHalfUlp == (2 * F32Mantissa) \div Binade(i, 1)
             IN  IF d <= (2 * i) \div perHalfUlp THEN i + 1 ELSE i
        ELSE LET u == Binade(i, 1) \div F32Mantissa
                 q == i \div u
                 lo == q * u
                 mid == lo + u \div 2
                 exact == LimbsDiff(n, Carry(Square(i))) = 0
             IN  IF i < mid THEN lo
                 ELSE IF i = mid /\ exact /\ q % 2 = 0 THEN lo
                 ELSE lo + u

\* f64 negative infinity, the value of log10(0.0).
NegInf == -1000

\* Floor(log10(n / d)) for n, d > 0.
RECURSIVE FloorLog10(_, _)
FloorLog10(n, d) ==
    IF n >= d
    THEN IF n \div 10 >= d THEN 1 + FloorLog10(n \div 10, d) ELSE 0
    ELSE FloorLog10(n * 10, d) - 1

\* pipeline.rs:179-180   1.0 + ((v.norm() as f64) / FFT_SIZE as f64).log10()
NormalisedX(v) ==
    LET norm == Norm(v)
    IN  IF norm = 0 THEN NegInf ELSE 1 + FloorLog10(norm, FFT_SIZE)

\* The same without the clamp of negative values.
BinUnclamped(v) == NormalisedX(v)

\* pipeline.rs:178-186   the closure of .map(): if x < 0.0 { 0.0 } else { x / 5.0 }
Bin(v) == LET x == NormalisedX(v) IN IF x < 0 THEN 0 ELSE x

\* pipeline.rs:175-177   fft_buffer.iter().skip(n)
Skip(s, n) == Drop(s, n)

\* pipeline.rs:178-187   .map(|v| ..).collect() over runs lo .. hi of s
RECURSIVE MapBin(_, _, _)
MapBin(s, lo, hi) ==
    IF lo > hi THEN <<>>
    ELSE IF lo = hi THEN << <<s[lo][1], Bin(s[lo][2])>> >>
    ELSE LET mid == (lo + hi) \div 2
         IN  JoinRuns(MapBin(s, lo, mid), MapBin(s, mid + 1, hi))

\* pipeline.rs:175-187   the Vec<f64> handed to sender.send
FrameBins(buf) ==
    LET upper == Skip(buf, FFT_SIZE \div 2)
    IN  MapBin(upper, 1, Len(upper))

\* The cursor set back to the middle of the buffer.
ResetPosHalf == FFT_SIZE \div 2

\* pipeline.rs:172   pos = 0
ResetPos == 0

\* The window test one sample late: pos > FFT_SIZE.
WindowFullLate(pos) == pos > FFT_SIZE

\* The window test one sample early: a window of FFT_SIZE - 1 samples.
WindowFullEarly(pos) == pos >= FFT_SIZE - 1

\* pipeline.rs:170   if pos >= FFT_SIZE
WindowFull(pos) == pos >= FFT_SIZE

\* The least k in lo .. hi with the test at line 170 true at cursor
\* pos + k, or hi when there is none below it; the test, once true, stays
\* true as the cursor grows.
RECURSIVE FirstFull(_, _, _)
FirstFull(pos, lo, hi) ==
    IF lo >= hi THEN hi
    ELSE LET mid == (lo + hi) \div 2
         IN  IF WindowFull(pos + mid) THEN FirstFull(pos, lo, mid)
             ELSE FirstFull(pos, mid + 1, hi)

\* The number of passes of the loop, out of n, that start at cursor pos and
\* find the test at line 170 false one after the other.
RunLength(pos, n) == FirstFull(pos, 0, n)

\* The store after the increment: fft_buffer[pos + 1] takes the sample.
WriteRunPreIncrement(a, k, v, first) ==
    [pos |-> a.pos + k,
     fft_buffer |-> Store(a.fft_buffer, a.pos + 1, k, ComplexOf(v)),
     origin |-> Store(a.origin, a.pos + 1, k, <<first - (a.pos + 1)>>),
     hi |-> IF k > 0 /\ a.pos + k > a.hi THEN a.pos + k ELSE a.hi]

\* pipeline.rs:191-192   fft_buffer[pos] = Complex::new(..); pos += 1, k times
\* over (the passes of a run): slots pos .. pos+k-1 take the samples and pos
\* advances by k.  All k samples of a run have the value v; the first of
\* them is sample number `first` of the stream.
WriteRun(a, k, v, first) ==
    [pos |-> a.pos + k,
     fft_buffer |-> Store(a.fft_buffer, a.pos, k, ComplexOf(v)),
     origin |-> Store(a.origin, a.pos, k, <<first - a.pos>>),
     hi |-> IF k > 0 /\ a.pos + k - 1 > a.hi THEN a.pos + k - 1 ELSE a.hi]

\* pipeline.rs:171-172   fft.process(&mut fft_buffer); pos = 0: the buffer
\* now holds the spectrum `out` and no sample.
AfterFft(a, out) ==
    [pos |-> ResetPos, fft_buffer |-> out, origin |-> NoOrigin, hi |-> a.hi]

\* What fft_buffer holds when fft.process is called: the stream positions
\* of the samples in its first and last slot, and whether each slot holds
\* the sample that follows the one of the slot before.
WindowOf(origin) ==
    [first |-> SlotOrigin(origin, 1), last |-> SlotOrigin(origin, FFT_SIZE),
     contiguous |-> Len(origin) = 1 /\ origin[1][2] # <<>>]

(* ------------------------------- state --------------------------------- *)

VARIABLES
    pc,                     \* main thread: "startup", "init", "loop",
                            \* "in_set_state", "exited", "terminated"
    control_flow,           \* *control_flow: "Poll", "WaitUntil", "Exit"
    pipeline,               \* the Option<Pipeline> handle: NoPipeline or an id
    current_visualisation,  \* "KALEIDOSCOPE" or "WATERFALL"
    shift_state,            \* the shift modifier flag
    npipelines,             \* pipelines constructed so far (ids 1 .. npipelines)
    gst_state,              \* per pipeline: state of the gst::Pipeline
    call,                   \* the set_state call the main thread is inside
    analyzer,               \* per pipeline: [pos, fft_buffer] of its callback
    cb,                     \* per pipeline: the streaming thread's place in
                            \* the callback
    send_errs,              \* per pipeline: sends that returned Err (the
                            \* receiver was gone); unwrap panics on the first
    chan,                   \* frames queued in the sync_channel
    calls,                  \* history: callback invocations per pipeline
    ingested,               \* history: samples written per pipeline
    emitted,                \* history: frames sent per pipeline
    sent,                   \* history: ids of the frames sent, in order
    received,               \* history: ids of the frames try_recv returned,
                            \* each handed to wf.set_fft_data (main.rs:227)
    last                    \* history: the step taken last, its outcome and
                            \* the Pipeline operations it called, in order

ctlVars == <<pc, control_flow, pipeline, current_visualisation, shift_state,
             npipelines, gst_state, call>>
cbVars == <<cb, send_errs, calls, ingested, emitted>>
anaVars == <<analyzer, cbVars>>
chanVars == <<chan, sent, received>>
vars == <<ctlVars, anaVars, chanVars, last>>

\* The analyzer of a pipeline that has not been constructed: there is none.
NoAnalyzer == [pos |-> 0, fft_buffer |-> <<>>, origin |-> <<>>, hi |-> NoSample]

\* The streaming thread of a pipeline when it is not inside the callback.
IdleCb ==
    [active |-> FALSE, blocked |-> FALSE, frame |-> <<>>, win |-> <<>>,
     rest |-> 0, val |-> 0]

\* pipeline.rs:169   the streaming thread at the head of the loop with n
\* samples of value v still to look at; with none left the callback returns.
Running(n, v) ==
    IF n = 0 THEN IdleCb
    ELSE [active |-> TRUE, blocked |-> FALSE, frame |-> <<>>, win |-> <<>>,
          rest |-> n, val |-> v]

\* pipeline.rs:173-189   the streaming thread waiting inside sender.send with
\* the frame `bins`, n samples of value v still to look at after it.
Waiting(bins, win, n, v) ==
    [active |-> TRUE, blocked |-> TRUE, frame |-> bins, win |-> win,
     rest |-> n, val |-> v]

\* The playback state of the controller: Stopped without a handle; with
\* one, Paused when the call that last returned Ok on it was pause(), else
\* Playing (the handle is kept only after play() or pause() returned Ok).
PlaybackState ==
    IF pipeline = NoPipeline THEN "Stopped"
    ELSE IF gst_state[pipeline] = "Paused" THEN "Paused" ELSE "Playing"

\* What `last` records of a step: the event, its outcome, the Pipeline
\* operations called, and the playback state the step started in.
Step(ev, res, ops) ==
    [ev |-> ev, res |-> res, ops |-> ops, was |-> PlaybackState]

\* A queued frame: the Vec<f64> (bins), with the producer and its serial
\* number kept beside it to tell frames apart, and the window it was
\* computed from.
Frame(p, k, bins, win) == [src |-> p, seq |-> k, bins |-> bins, win |-> win]

FrameId(f) == <<f.src, f.seq>>

\* A channel whose bound is one frame more than asked for.
ChannelFullOneLate(q) == Len(q) > ChanCapacity

\* main.rs:78   sync_channel(bound): a send finds the channel full when
\* `bound` frames are queued, and waits.
ChannelFull(q) == Len(q) >= ChanCapacity

\* sender.send(frame) returning: the frame joins the queue at the back.
\* s = [a, cb, chan, sent, emitted, ingested, closed, errs] is the part of
\* the state the callback of pipeline p works on; closed tells that the
\* receiver has been dropped, errs counts the sends that returned Err.
Deliver(p, s, bins, win) ==
    LET f == Frame(p, s.emitted + 1, bins, win)
    IN  [s EXCEPT !.chan = Append(s.chan, f),
                  !.sent = Append(s.sent, FrameId(f)),
                  !.emitted = s.emitted + 1]

\* pipeline.rs:169-193   the passes of the loop that find the test at line
\* 170 false, one after the other, over n samples of value v: they store
\* samples up to the end of the buffer or to a full window with a sample in
\* hand.
StoreRun(s, n, v) ==
    LET k == RunLength(s.a.pos, n)
    IN  [s EXCEPT !.a = WriteRun(s.a, k, v, s.ingested),
                  !.ingested = s.ingested + k,
                  !.cb = Running(n - k, v)]

\* The Err of send ignored: the loop goes on with the sample in hand.
SendErrIgnored(p, s, n, v) == StoreRun([s EXCEPT !.errs = @ + 1], n, v)

\* pipeline.rs:173-189   sender.send(..).unwrap() when send returns Err: the
\* panic ends the callback, the n samples left are not looked at.
SendErr(p, s, n, v) == [s EXCEPT !.cb = IdleCb, !.errs = @ + 1]

\* pipeline.rs:169-193   for sample in samples { ... } from the head of the
\* loop with n samples of value v to look at, up to the next call of send
\* that the thread has not yet made: with a full window, the FFT, pos = 0 and
\* the send, which finds the receiver gone (Err at once, unwrap panics), or
\* the channel full (the thread waits), or room, and then the stores that
\* follow; with no full window, the stores.  The stores touch nothing the
\* main thread reads.
IngestLoop(p, s, n, v) ==
    IF n = 0 THEN [s EXCEPT !.cb = IdleCb]
    ELSE IF WindowFull(s.a.pos)
    THEN CHOOSE r \in {
             LET bins == FrameBins(out)
                 win == WindowOf(s.a.origin)
                 s1 == [s EXCEPT !.a = AfterFft(s.a, out)]
             IN  IF s.closed
                 THEN SendErr(p, s1, n, v)
                 ELSE IF ChannelFull(s.chan)
                 THEN [s1 EXCEPT !.cb = Waiting(bins, win, n, v)]
                 ELSE StoreRun(Deliver(p, s1, bins, win), n, v)
             : out \in {Dft(s.a.fft_buffer)}} : TRUE
    ELSE StoreRun(s, n, v)

\* The receiver lives in the closure handed to event_loop.run (main.rs:109)
\* and is dropped with it when the loop has ended.
ReceiverDropped == pc \in {"exited", "terminated"}

CallbackState(p) ==
    [a |-> analyzer[p], cb |-> cb[p], chan |-> chan, sent |-> sent,
     emitted |-> emitted[p], ingested |-> ingested[p],
     closed |-> ReceiverDropped, errs |-> send_errs[p]]

SetCallbackState(p, s) ==
    /\ analyzer' = [analyzer EXCEPT ![p] = s.a]
    /\ cb' = [cb EXCEPT ![p] = s.cb]
    /\ send_errs' = [send_errs EXCEPT ![p] = s.errs]
    /\ chan' = s.chan
    /\ sent' = s.sent
    /\ emitted' = [emitted EXCEPT ![p] = s.emitted]
    /\ ingested' = [ingested EXCEPT ![p] = s.ingested]

\* The callback of pipeline p has panicked.
Panicked(p) == send_errs[p] > 0

\* The outcome of a step of the streaming thread, for `last`: a send
\* returned Err, the thread waits in send, it is still inside the callback,
\* or the callback has returned.
CallbackResult(p) ==
    IF send_errs'[p] # send_errs[p] THEN "send_err"
    ELSE IF cb'[p].blocked THEN "blocked"
    ELSE IF cb'[p].active THEN "running" ELSE "ok"

\* pipeline.rs:123-196   the new_sample callback of pipeline p, handed a
\* buffer of n samples.  It runs on the pipeline's streaming thread, only
\* while the pipeline is Playing, whatever the event loop is doing (also
\* while the main thread waits inside set_state for the callback before it),
\* and never again once it has panicked (the appsink then fails the stream).
Callback(p, n, v) ==
    /\ pc # "terminated"
    /\ gst_state[p] = "Playing"
    /\ ~cb[p].active
    /\ ~Panicked(p)
    /\ \E s \in {IngestLoop(p, CallbackState(p), n, v)} :
          SetCallbackState(p, s)
    /\ calls' = [calls EXCEPT ![p] = @ + 1]
    /\ last' = Step("Callback", CallbackResult(p), <<>>)
    /\ UNCHANGED <<ctlVars, received>>

\* pipeline.rs:169-193   the streaming thread of p, inside the callback and
\* not waiting, goes on with the loop.
CallbackContinue(p) ==
    /\ pc # "terminated"
    /\ cb[p].active
    /\ ~cb[p].blocked
    /\ \E s \in {IngestLoop(p, CallbackState(p), cb[p].rest, cb[p].val)} :
          SetCallbackState(p, s)
    /\ last' = Step("Continue", CallbackResult(p), <<>>)
    /\ UNCHANGED <<ctlVars, calls, received>>

\* pipeline.rs:173-189   a send that was waiting on the full channel returns
\* Ok once there is room, and the loop goes on with the sample in hand.
SendResume(p) ==
    /\ ~ReceiverDropped
    /\ cb[p].blocked
    /\ ~ChannelFull(chan)
    /\ \E s \in {StoreRun(Deliver(p, CallbackState(p), cb[p].frame,
                                  cb[p].win),
                          cb[p].rest, cb[p].val)} :
          SetCallbackState(p, s)
    /\ last' = Step("SendResume", CallbackResult(p), <<>>)
    /\ UNCHANGED <<ctlVars, calls, received>>

\* pipeline.rs:173-189   a send that was waiting on the full channel when the
\* receiver was dropped: it wakes up with Err, unwrap panics, the frame is
\* lost and the rest of the buffer is not looked at.
SendFails(p) ==
    /\ pc = "exited"
    /\ cb[p].blocked
    /\ cb' = [cb EXCEPT ![p] = IdleCb]
    /\ send_errs' = [send_errs EXCEPT ![p] = @ + 1]
    /\ last' = Step("SendFails", "send_err", <<>>)
    /\ UNCHANGED <<ctlVars, chanVars, analyzer, calls, ingested, emitted>>

\* try_recv returning the newest frame instead of the oldest.
TakeNewest(q) == [frame |-> q[Len(q)], rest |-> SubSeq(q, 1, Len(q) - 1)]

\* main.rs:226   mpsc_receiver.try_recv() on a queue that is not empty.
TryRecv(q) == [frame |-> Head(q), rest |-> Tail(q)]

\* main.rs:110   *control_flow = target in the closure.  Once the closure has
\* set Exit the event loop hands it a stand-in for the events it still
\* delivers, so Exit stays.
SetControlFlow(target) ==
    control_flow' = IF control_flow = "Exit" THEN "Exit" ELSE target

\* The tick code emptying the channel: frames taken while try_recv returns
\* one, each handed to the waterfall.
TickBodyDrains(ev) ==
    /\ SetControlFlow("WaitUntil")
    /\ chan' = <<>>
    /\ received' = received \o [i \in 1 .. Len(chan) |-> FrameId(chan[i])]
    /\ last' = Step(ev, IF chan # <<>> THEN "frame" ELSE "empty", <<>>)

\* main.rs:222-229   the code after the match: schedule the next tick and
\* take at most one frame with try_recv; a frame taken goes to the waterfall
\* (wf.set_fft_data).  ev names the event that got here.
TickBody(ev) ==
    /\ SetControlFlow("WaitUntil")
    /\ IF chan # <<>>
       THEN /\ chan' = TryRecv(chan).rest
            /\ received' = Append(received, FrameId(TryRecv(chan).frame))
            /\ last' = Step(ev, "frame", <<>>)
       ELSE /\ UNCHANGED <<chan, received>>
            /\ last' = Step(ev, "empty", <<>>)

\* main.rs:214-246   NewEvents(ResumeTimeReached | Init): the match falls
\* through to the code after it, which then renders.  The event opens an
\* iteration of the loop, and the loop starts none once Exit is set.
RenderTick ==
    /\ pc \in {"init", "loop"}
    /\ control_flow # "Exit"
    /\ pc' = "loop"
    /\ TickBody("Tick")
    /\ UNCHANGED <<pipeline, current_visualisation, shift_state,
                   npipelines, gst_state, call, anaVars, sent>>

(* ----------------------------- event loop ------------------------------ *)

\* The states of a gst::Pipeline from the lowest up; Prerolling is a
\* pipeline on its way to Playing after set_state(Playing) returned Async.
Rank(st) ==
    CASE st = "Null" -> 0
      [] st = "Ready" -> 1
      [] st \in {"Paused", "Prerolling"} -> 2
      [] st = "Playing" -> 3

\* pipeline.rs:207-220   gst::Element::set_state(target) on a pipeline in
\* state st: the states it can leave the pipeline in.  Ok is Success or
\* Async: set_state(Playing) returns Ok with the pipeline Playing or still
\* on its way there, which it may never reach.  Err leaves the pipeline
\* where the last transition that succeeded took it: on the way down to
\* Null any state from the current one to Ready, on the way up from Null
\* either Null or Ready (the next step, to Paused, is the one that returns
\* Async).  A pipeline on its way to Playing is in Paused, and
\* set_state(Null) makes Null its target: when the call fails the pipeline
\* is Paused or Ready and no longer on its way to Playing.
SetState(st, target, ok) ==
    IF ok
    THEN IF target = "Playing" /\ st # "Playing"
         THEN {"Playing", "Prerolling"}
         ELSE {target}
    ELSE IF target = "Null"
         THEN LET current == IF st = "Prerolling" THEN "Paused" ELSE st
              IN  {current} \cup
                  {s \in {"Paused", "Ready"} : Rank(s) < Rank(current)}
         ELSE {st} \cup (IF st = "Null" THEN {"Ready"} ELSE {})

\* The last reference to a gst::Pipeline going away: the states it can be
\* left in.  A pipeline in the Null state is disposed of; one in Ready is
\* disposed of (GStreamer complains) or stays as it is; a pipeline in a
\* higher state stays as it is, without an owner.
DropHandle(st) ==
    IF st = "Null" THEN {"Disposed"}
    ELSE IF st = "Ready" THEN {"Ready", "Disposed"}
    ELSE {st}

\* The closure is handed a key or window event: the loop has had its first
\* event (NewEvents(Init)).  The events already waiting when the closure
\* sets Exit are still handed to it before the loop ends.
Handling == pc = "loop"

\* No set_state call in progress.
NoCall == [ev |-> "none", op |-> "none"]

\* set_state(Null | Paused) on the held pipeline returns only once its
\* streaming thread has left the callback: the main thread waits in it.
WaitInSetState(ev, op) ==
    /\ pc' = "in_set_state"
    /\ call' = [ev |-> ev, op |-> op]
    /\ last' = Step(ev, "wait", <<op>>)
    /\ UNCHANGED <<pipeline, gst_state>>

\* Construction followed by play, keeping the handle when play fails.
NewAndPlayKeepsOnError(ev, newOk, playOk) ==
    LET id == npipelines + 1 IN
    IF ~newOk
    THEN /\ pipeline' = NoPipeline
         /\ last' = Step(ev, "new_err", <<"new">>)
         /\ UNCHANGED <<npipelines, gst_state, analyzer>>
    ELSE /\ npipelines' = id
         /\ analyzer' = [analyzer EXCEPT ![id] = NewAnalyzer]
         /\ pipeline' = id
         /\ \E st \in SetState("Null", "Playing", playOk) :
               gst_state' = [gst_state EXCEPT ![id] = st]
         /\ last' = Step(ev, IF playOk THEN "ok" ELSE "play_err", <<"new", "play">>)

\* main.rs:80-99 and main.rs:145-161   Pipeline::new(..).map_err(..)
\* .and_then(|p| p.play().map_err(..).and_then(|_| pipeline = Some(p))).ok()
\* A pipeline is constructed in the Null state with its analyzer
\* (pipeline.rs:25-33); when play fails p goes out of scope, the only handle
\* to it.
NewAndPlay(ev, newOk, playOk) ==
    LET id == npipelines + 1 IN
    IF ~newOk
    THEN /\ pipeline' = NoPipeline
         /\ last' = Step(ev, "new_err", <<"new">>)
         /\ UNCHANGED <<npipelines, gst_state, analyzer>>
    ELSE /\ npipelines' = id
         /\ analyzer' = [analyzer EXCEPT ![id] = NewAnalyzer]
         /\ \E st \in SetState("Null", "Playing", playOk) :
               IF playOk
               THEN /\ pipeline' = id
                    /\ gst_state' = [gst_state EXCEPT ![id] = st]
                    /\ last' = Step(ev, "ok", <<"new", "play">>)
               ELSE /\ pipeline' = NoPipeline
                    /\ \E d \in DropHandle(st) :
                          gst_state' = [gst_state EXCEPT ![id] = d]
                    /\ last' = Step(ev, "play_err", <<"new", "play">>)

\* main.rs:78-108   run_visualisation up to event_loop.run.
Startup(newOk, playOk) ==
    /\ pc = "startup"
    /\ pc' = "init"
    /\ NewAndPlay("Startup", newOk, playOk)
    /\ UNCHANGED <<control_flow, current_visualisation, shift_state, call,
                   cbVars, chanVars>>

\* main.rs:113-116   WindowEvent::CloseRequested
CloseRequested ==
    /\ Handling
    /\ control_flow' = "Exit"
    /\ last' = Step("Close", "exit", <<>>)
    /\ UNCHANGED <<pc, pipeline, current_visualisation, shift_state,
                   npipelines, gst_state, call, anaVars, chanVars>>

\* main.rs:117-119   WindowEvent::ModifiersChanged: the arm has no return,
\* so the closure goes on to the code after the match (main.rs:222-246).
ModifiersChanged(shift) ==
    /\ Handling
    /\ shift_state' = shift
    /\ TickBody("Modifiers")
    /\ UNCHANGED <<pc, pipeline, current_visualisation,
                   npipelines, gst_state, call, anaVars, sent>>

\* main.rs:126-128   VirtualKeyCode::Q
KeyQ ==
    /\ Handling
    /\ control_flow' = "Exit"
    /\ last' = Step("Q", "exit", <<>>)
    /\ UNCHANGED <<pc, pipeline, current_visualisation, shift_state,
                   npipelines, gst_state, call, anaVars, chanVars>>

\* main.rs:132-137   p.stop() has returned: a failure is reported, and the
\* handle is dropped either way.
StopReturned(ev, ok, ops) ==
    /\ \E st \in SetState(gst_state[pipeline], "Null", ok) :
       \E d \in DropHandle(st) :
          gst_state' = [gst_state EXCEPT ![pipeline] = d]
    /\ pipeline' = NoPipeline
    /\ last' = Step(ev, IF ok THEN "ok" ELSE "stop_err", ops)

\* main.rs:129-141   VirtualKeyCode::A: stop the held pipeline, report a
\* failure, drop the handle.
KeyA(ok) ==
    /\ Handling
    /\ IF pipeline = NoPipeline
       THEN /\ last' = Step("A", "none", <<>>)
            /\ UNCHANGED <<pc, pipeline, gst_state, call>>
       ELSE IF cb[pipeline].active
       THEN WaitInSetState("A", "stop")
       ELSE /\ StopReturned("A", ok, <<"stop">>)
            /\ UNCHANGED <<pc, call>>
    /\ UNCHANGED <<control_flow, current_visualisation, shift_state,
                   npipelines, anaVars, chanVars>>

\* The S handler constructing a pipeline whether or not one is held.
KeySAlwaysNew(newOk, playOk) ==
    /\ Handling
    /\ npipelines < MaxPipelines
    /\ NewAndPlay("S", newOk, playOk)
    /\ UNCHANGED <<pc, control_flow, current_visualisation, shift_state,
                   call, cbVars, chanVars>>

\* main.rs:142-172   VirtualKeyCode::S: with no handle, construct a pipeline
\* for the built-in file and play it; with a handle, play it.
KeyS(newOk, playOk) ==
    /\ Handling
    /\ IF pipeline = NoPipeline
       THEN /\ npipelines < MaxPipelines
            /\ NewAndPlay("S", newOk, playOk)
       ELSE /\ \E st \in SetState(gst_state[pipeline], "Playing", playOk) :
               \E d \in IF playOk THEN {st} ELSE DropHandle(st) :
                  gst_state' = [gst_state EXCEPT ![pipeline] = d]
            /\ pipeline' = IF playOk THEN pipeline ELSE NoPipeline
            /\ last' = Step("S", IF playOk THEN "ok" ELSE "play_err", <<"play">>)
            /\ UNCHANGED <<npipelines, analyzer>>
    /\ UNCHANGED <<pc, control_flow, current_visualisation, shift_state,
                   call, cbVars, chanVars>>

\* main.rs:176-181   p.pause() has returned: on failure the handle is
\* dropped.
PauseReturned(ev, ok, ops) ==
    /\ \E st \in SetState(gst_state[pipeline], "Paused", ok) :
       \E d \in IF ok THEN {st} ELSE DropHandle(st) :
          gst_state' = [gst_state EXCEPT ![pipeline] = d]
    /\ pipeline' = IF ok THEN pipeline ELSE NoPipeline
    /\ last' = Step(ev, IF ok THEN "ok" ELSE "pause_err", ops)

\* The D handler keeping the handle when pause() fails.
KeyDKeepsOnError(ok) ==
    /\ Handling
    /\ IF pipeline = NoPipeline
       THEN /\ last' = Step("D", "none", <<>>)
            /\ UNCHANGED <<pc, pipeline, gst_state, call>>
       ELSE IF cb[pipeline].active
       THEN WaitInSetState("D", "pause")
       ELSE /\ \E st \in SetState(gst_state[pipeline], "Paused", ok) :
                  gst_state' = [gst_state EXCEPT ![pipeline] = st]
            /\ last' = Step("D", IF ok THEN "ok" ELSE "pause_err", <<"pause">>)
            /\ UNCHANGED <<pc, pipeline, call>>
    /\ UNCHANGED <<control_flow, current_visualisation, shift_state,
                   npipelines, anaVars, chanVars>>

\* The D handler pausing by rebuilding: the held pipeline is replaced by a
\* fresh one that is left paused.
KeyDRebuilds(ok) ==
    /\ Handling
    /\ IF pipeline = NoPipeline
       THEN /\ last' = Step("D", "none", <<>>)
            /\ UNCHANGED <<pc, pipeline, gst_state, npipelines, call,
                           analyzer>>
       ELSE IF cb[pipeline].active
       THEN /\ WaitInSetState("D", "pause")
            /\ UNCHANGED <<npipelines, analyzer>>
       ELSE /\ npipelines < MaxPipelines
            /\ npipelines' = npipelines + 1
            /\ analyzer' = [analyzer EXCEPT ![npipelines + 1] = NewAnalyzer]
            /\ gst_state' = [gst_state EXCEPT ![pipeline] = "Disposed",
                                               ![npipelines + 1] = "Paused"]
            /\ pipeline' = npipelines + 1
            /\ last' = Step("D", "ok", <<"pause">>)
            /\ UNCHANGED <<pc, call>>
    /\ UNCHANGED <<control_flow, current_visualisation, shift_state,
                   cbVars, chanVars>>

\* The D handler as a play/pause toggle: with no handle it constructs and
\* plays, as S does.
KeyDToggles(ok) ==
    /\ Handling
    /\ IF pipeline = NoPipeline
       THEN /\ npipelines < MaxPipelines
            /\ NewAndPlay("D", TRUE, ok)
            /\ UNCHANGED <<pc, call>>
       ELSE IF cb[pipeline].active
       THEN /\ WaitInSetState("D", "pause")
            /\ UNCHANGED <<npipelines, analyzer>>
       ELSE /\ PauseReturned("D", ok, <<"pause">>)
            /\ UNCHANGED <<pc, call, npipelines, analyzer>>
    /\ UNCHANGED <<control_flow, current_visualisation, shift_state,
                   cbVars, chanVars>>

\* main.rs:173-185   VirtualKeyCode::D: pause the held pipeline; on failure
\* drop the handle.
KeyD(ok) ==
    /\ Handling
    /\ IF pipeline = NoPipeline
       THEN /\ last' = Step("D", "none", <<>>)
            /\ UNCHANGED <<pc, pipeline, gst_state, call>>
       ELSE IF cb[pipeline].active
       THEN WaitInSetState("D", "pause")
       ELSE /\ PauseReturned("D", ok, <<"pause">>)
            /\ UNCHANGED <<pc, call>>
    /\ UNCHANGED <<control_flow, current_visualisation, shift_state,
                   npipelines, anaVars, chanVars>>

\* pipeline.rs:212-220   set_state(Null | Paused) returns, with Ok or Err,
\* at a moment when the streaming thread is not inside the callback, and
\* the handler that called it goes on to its end (main.rs:133-137, 177-181,
\* 210).
SetStateReturns ==
    /\ pc = "in_set_state"
    /\ ~cb[pipeline].active
    /\ pc' = "loop"
    /\ call' = NoCall
    /\ \E ok \in BOOLEAN :
          IF call.op = "stop"
          THEN StopReturned(call.ev, ok, <<>>)
          ELSE PauseReturned(call.ev, ok, <<>>)
    /\ UNCHANGED <<control_flow, current_visualisation, shift_state,
                   npipelines, anaVars, chanVars>>

\* main.rs:186-188   VirtualKeyCode::K
KeyK ==
    /\ Handling
    /\ current_visualisation' = "KALEIDOSCOPE"
    /\ last' = Step("K", "none", <<>>)
    /\ UNCHANGED <<pc, control_flow, pipeline, shift_state, npipelines,
                   gst_state, call, anaVars, chanVars>>

\* The W arm going on to the code after the match instead of returning.
KeyWFallsThrough ==
    /\ Handling
    /\ current_visualisation' = "WATERFALL"
    /\ TickBody("W")
    /\ UNCHANGED <<pc, pipeline, shift_state, npipelines, gst_state, call,
                   anaVars, sent>>

\* main.rs:189-191   VirtualKeyCode::W
KeyW ==
    /\ Handling
    /\ current_visualisation' = "WATERFALL"
    /\ last' = Step("W", "none", <<>>)
    /\ UNCHANGED <<pc, control_flow, pipeline, shift_state, npipelines,
                   gst_state, call, anaVars, chanVars>>

\* main.rs:208   any other key: _ => return
OtherKey ==
    /\ Handling
    /\ last' = Step("Other", "none", <<>>)
    /\ UNCHANGED <<pc, control_flow, pipeline, current_visualisation,
                   shift_state, npipelines, gst_state, call, anaVars,
                   chanVars>>

\* pipeline.rs:207-210   the change of state that set_state(Playing) left
\* in progress when it returned Async completes, on a thread of the
\* pipeline: the pipeline is Playing and buffers start to reach the appsink.
AsyncDone(p) ==
    /\ pc # "terminated"
    /\ gst_state[p] = "Prerolling"
    /\ gst_state' = [gst_state EXCEPT ![p] = "Playing"]
    /\ last' = Step("AsyncDone", "none", <<>>)
    /\ UNCHANGED <<pc, control_flow, pipeline, current_visualisation,
                   shift_state, npipelines, call, anaVars, chanVars>>

\* main.rs:109   event_loop.run once *control_flow is Exit and the events
\* that were waiting have been handled: the loop ends and the closure is
\* dropped with all it owns, the receiver and the Option<Pipeline> among
\* them (what is queued stays unread).
LoopDestroyed ==
    /\ pc = "loop"
    /\ control_flow = "Exit"
    /\ pc' = "exited"
    /\ pipeline' = NoPipeline
    /\ IF pipeline = NoPipeline
       THEN UNCHANGED gst_state
       ELSE \E d \in DropHandle(gst_state[pipeline]) :
               gst_state' = [gst_state EXCEPT ![pipeline] = d]
    /\ last' = Step("LoopDestroyed", "none", <<>>)
    /\ UNCHANGED <<control_flow, current_visualisation, shift_state,
                   npipelines, call, anaVars, chanVars>>

\* main.rs:109   event_loop.run never returns: the process exits once the
\* closure is gone, and every thread ends with it.  A panic that takes the
\* process down from a streaming thread ends in the same way.
ProcessExit ==
    /\ pc = "exited"
    /\ pc' = "terminated"
    /\ last' = Step("ProcessExit", "none", <<>>)
    /\ UNCHANGED <<control_flow, pipeline, current_visualisation, shift_state,
                   npipelines, gst_state, call, anaVars, chanVars>>

(* --------------------------- specifications ---------------------------- *)

\* main.rs:59-79   run_visualisation before the first pipeline is built:
\* the channel exists and is empty, the handle is None; State::default()
\* (main.rs:20-22) selects KALEIDOSCOPE and shift_state is false (main.rs:108).
Init ==
    /\ pc = "startup"
    /\ control_flow = "Poll"
    /\ pipeline = NoPipeline
    /\ current_visualisation = "KALEIDOSCOPE"
    /\ shift_state = FALSE
    /\ npipelines = 0
    /\ gst_state = [p \in Pipes |-> "Absent"]
    /\ call = NoCall
    /\ analyzer = [p \in Pipes |-> NoAnalyzer]
    /\ cb = [p \in Pipes |-> IdleCb]
    /\ send_errs = [p \in Pipes |-> 0]
    /\ chan = <<>>
    /\ calls = [p \in Pipes |-> 0]
    /\ ingested = [p \in Pipes |-> 0]
    /\ emitted = [p \in Pipes |-> 0]
    /\ sent = <<>>
    /\ received = <<>>
    /\ last = [ev |-> "Init", res |-> "none", ops |-> <<>>, was |-> "Stopped"]

\* Callback invocations of pipelines 1 .. n so far.
RECURSIVE CallsMade(_)
CallsMade(n) == IF n = 0 THEN 0 ELSE calls[n] + CallsMade(n - 1)

Next ==
    \/ \E newOk, playOk \in BOOLEAN : Startup(newOk, playOk)
    \/ CloseRequested
    \/ \E shift \in BOOLEAN : ModifiersChanged(shift)
    \/ KeyQ
    \/ \E ok \in BOOLEAN : KeyA(ok)
    \/ \E newOk, playOk \in BOOLEAN : KeyS(newOk, playOk)
    \/ \E ok \in BOOLEAN : KeyD(ok)
    \/ SetStateReturns
    \/ KeyK
    \/ KeyW
    \/ OtherKey
    \/ RenderTick
    \/ \E p \in Pipes, n \in ChunkSizes, v \in PlaybackSampleVals :
          CallsMade(MaxPipelines) < MaxCallbacks /\ Callback(p, n, v)
    \/ \E p \in Pipes : AsyncDone(p)
    \/ \E p \in Pipes : CallbackContinue(p)
    \/ \E p \in Pipes : SendResume(p)
    \/ \E p \in Pipes : SendFails(p)
    \/ LoopDestroyed
    \/ ProcessExit

Spec == Init /\ [][Next]_vars

\* A step of a thread other than the event loop's handlers: a streaming
\* thread going on inside its callback or coming out of send, or the main
\* thread coming out of set_state.
ThreadStep ==
    \/ SetStateReturns
    \/ \E p \in Pipes : CallbackContinue(p) \/ SendResume(p) \/ SendFails(p)

\* ENABLED ThreadStep, from the guards of its actions.
CanRun ==
    \/ pc = "in_set_state" /\ ~cb[pipeline].active
    \/ \E p \in Pipes :
          \/ pc # "terminated" /\ cb[p].active /\ ~cb[p].blocked
          \/ ~ReceiverDropped /\ cb[p].blocked /\ ~ChannelFull(chan)
          \/ pc = "exited" /\ cb[p].blocked

\* A step is one of ThreadStep: every action records itself in `last`.
ThreadStepTaken ==
    \/ last'.ev \in {"Continue", "SendResume", "SendFails"}
    \/ pc = "in_set_state" /\ pc' = "loop"

\* Scheduling: while the loop runs its timer fires every 16.67 ms, so a tick
\* that stays possible is taken; and a thread that can run is run: weak
\* fairness of ThreadStep, written out with CanRun for its enabling
\* condition.  Nothing is assumed of the keys pressed nor of the buffers the
\* decoder delivers.
Fairness ==
    /\ WF_vars(RenderTick)
    /\ ([]<>~CanRun) \/ ([]<><<ThreadStepTaken>>_vars)

SpecFair == Spec /\ Fairness

\* The analyzer alone: the event loop is running with the pipeline built at
\* startup playing, and only callbacks and render ticks happen.
InitIngest ==
    /\ pc = "init"
    /\ control_flow = "Poll"
    /\ pipeline = 1
    /\ current_visualisation = "KALEIDOSCOPE"
    /\ shift_state = FALSE
    /\ npipelines = 1
    /\ gst_state = [p \in Pipes |-> IF p = 1 THEN "Playing" ELSE "Absent"]
    /\ call = NoCall
    /\ analyzer = [p \in Pipes |-> IF p = 1 THEN NewAnalyzer ELSE NoAnalyzer]
    /\ cb = [p \in Pipes |-> IdleCb]
    /\ send_errs = [p \in Pipes |-> 0]
    /\ chan = <<>>
    /\ calls = [p \in Pipes |-> 0]
    /\ ingested = [p \in Pipes |-> 0]
    /\ emitted = [p \in Pipes |-> 0]
    /\ sent = <<>>
    /\ received = <<>>
    /\ last = [ev |-> "Startup", res |-> "ok", ops |-> <<"new", "play">>,
               was |-> "Stopped"]

NextIngest ==
    \/ RenderTick
    \/ \E n \in IngestChunkSizes, v \in SampleVals :
          calls[1] < MaxIngestCallbacks /\ Callback(1, n, v)
    \/ CallbackContinue(1)
    \/ SendResume(1)

SpecIngest == InitIngest /\ [][NextIngest]_vars

(* ------------------------------- claims -------------------------------- *)

\* Frames whose send has returned or is waiting, for pipeline p.
FramesProduced(p) == emitted[p] + (IF cb[p].blocked THEN 1 ELSE 0)

\* Samples the callback of p has taken from its buffers: those written to
\* the window, and the one in hand while a send waits.
SamplesTaken(p) == ingested[p] + (IF cb[p].blocked THEN 1 ELSE 0)

\* C1 as stated: after n samples, exactly n \div FFT_SIZE frames have been
\* sent, one each time the window fills.
C1_FramesFloor ==
    \A p \in Pipes :
        ~cb[p].blocked => emitted[p] = ingested[p] \div FFT_SIZE

\* C1 amended: after n samples the callback has produced 0 frames when
\* n = 0 and (n - 1) \div FFT_SIZE frames otherwise: the frame of a window is
\* sent when the first sample after it arrives, so a full window whose
\* successor has not arrived is still unsent, and no frame is made of a
\* partial window (the cursor accounts for every sample not yet in a frame).
C1_FramesLagOneSample ==
    \A p \in Pipes :
        LET n == SamplesTaken(p) IN
        /\ FramesProduced(p) = IF n = 0 THEN 0 ELSE (n - 1) \div FFT_SIZE
        /\ ingested[p] = FFT_SIZE * emitted[p]
                            + (IF cb[p].blocked THEN FFT_SIZE ELSE analyzer[p].pos)

\* C1 witness: a full window is waiting unsent, after an earlier window was
\* sent, with the samples split over more than one callback.
C1_Witness ==
    /\ calls[1] >= 2
    /\ ~cb[1].blocked
    /\ ingested[1] = 2 * FFT_SIZE
    /\ analyzer[1].pos = FFT_SIZE
    /\ emitted[1] = 1

\* The frame ids of a queue, in order.
QueuedIds == [i \in 1 .. Len(chan) |-> FrameId(chan[i])]

\* C2: the frames try_recv has returned are, in order, the first frames sent:
\* what was sent is what was received followed by what is still queued, so no
\* frame is reordered, repeated or skipped.
C2_ReceivedPrefixOfSent ==
    /\ Len(received) <= Len(sent)
    /\ received = SubSeq(sent, 1, Len(received))
    /\ sent = received \o QueuedIds
    /\ \A i, j \in 1 .. Len(received) : i # j => received[i] # received[j]

\* C2 witness: frames of two producers have been received, one after the
\* other had to wait for room, with more still queued.
C2_Witness ==
    /\ Len(received) >= 3
    /\ \E i, j \in 1 .. Len(received) : received[i][1] # received[j][1]
    /\ chan # <<>>

\* main.rs:101   waterfall::Shader::new(&display, 80, &pipeline::FFT_SIZE/2)
WaterfallBins == FFT_SIZE \div 2

\* Frames handed to sender.send: queued ones and those whose send waits.
FramesInFlight ==
    {chan[i].bins : i \in 1 .. Len(chan)}
        \cup {cb[p].frame : p \in {q \in Pipes : cb[q].blocked}}

\* C3: every frame sent has exactly FFT_SIZE / 2 = 400 bins, the bin count
\* the waterfall is built with, and no bin is negative.
C3_FrameShape ==
    \A f \in FramesInFlight :
        /\ Count(f) = 400
        /\ Count(f) = FFT_SIZE \div 2
        /\ Count(f) = WaterfallBins
        /\ \A j \in 1 .. Len(f) : f[j][1] > 0 /\ f[j][2] >= 0

\* C3 witness: the newest frame of pipeline 1 is queued and the spectrum it
\* was made from is still in the upper half of fft_buffer: one of its values
\* normalises below zero (and is not zero) and its bin is 0, another gives a
\* positive bin.
C3_Witness ==
    \E k \in 1 .. Len(chan) :
        /\ chan[k].src = 1
        /\ chan[k].seq = emitted[1]
        /\ analyzer[1].pos <= FFT_SIZE \div 2
        /\ chan[k].bins = FrameBins(analyzer[1].fft_buffer)
        /\ LET upper == Skip(analyzer[1].fft_buffer, FFT_SIZE \div 2) IN
           /\ \E i \in 1 .. Len(upper) :
                 LET x == NormalisedX(upper[i][2])
                 IN  x < 0 /\ x > NegInf /\ Bin(upper[i][2]) = 0
           /\ \E j \in 1 .. Len(upper) : Bin(upper[j][2]) > 0

\* Pipelines that exist and can stream: constructed, brought out of Null
\* and not brought back to it.
LivePipelines ==
    {p \in Pipes : gst_state[p] \in {"Playing", "Prerolling", "Paused"}}

\* C4 as stated: when the event loop starts the controller is Stopped and no
\* pipeline has been constructed or started.
C4_InitiallyStopped ==
    last.ev = "Startup" => /\ pipeline = NoPipeline
                           /\ npipelines = 0
                           /\ LivePipelines = {}

\* C4 amended: when the event loop starts, startup has tried to construct and
\* play one pipeline for the file of the command line: if both succeeded the
\* controller is Playing and holds that pipeline, else it is Stopped with no
\* handle and no live pipeline; nothing has been sent yet.
C4_StartupPlays ==
    last.ev = "Startup" =>
        /\ pc = "init"
        /\ last.ops \in {<<"new">>, <<"new", "play">>}
        /\ npipelines <= 1
        /\ IF last.res = "ok"
           THEN /\ pipeline = 1
                /\ PlaybackState = "Playing"
                /\ LivePipelines = {1}
           ELSE /\ pipeline = NoPipeline
                /\ PlaybackState = "Stopped"
                /\ LivePipelines = {}
        /\ chan = <<>> /\ sent = <<>>

\* C4 witness: the event loop starts with the startup pipeline playing.
C4_Witness ==
    /\ last.ev = "Startup"
    /\ pc = "init"
    /\ pipeline = 1
    /\ gst_state[1] = "Playing"

\* C5: a play command (S) found with no handle constructs exactly one
\* pipeline and starts it, and when construction and play both succeed the
\* controller is Playing and holds that new pipeline; found with a handle it
\* constructs nothing.
C5_PlayFromStopped ==
    [][last'.ev = "S" =>
         IF pipeline = NoPipeline
         THEN /\ last'.ops \in {<<"new">>, <<"new", "play">>}
              /\ npipelines' \in {npipelines, npipelines + 1}
              /\ last'.res = "ok" =>
                    /\ last'.ops = <<"new", "play">>
                    /\ npipelines' = npipelines + 1
                    /\ pipeline' = npipelines'
                    /\ gst_state[pipeline'] = "Absent"
                    /\ gst_state'[pipeline'] \in {"Playing", "Prerolling"}
                    /\ analyzer'[pipeline'] = NewAnalyzer
                    /\ PlaybackState' = "Playing"
         ELSE /\ npipelines' = npipelines
              /\ last'.ops = <<"play">>
              /\ pipeline' \in {pipeline, NoPipeline}
    ]_vars

\* C5 witness: S pressed while Stopped, after an earlier pipeline, has built
\* the second pipeline and it plays.
C5_Witness ==
    /\ last = [ev |-> "S", res |-> "ok", ops |-> <<"new", "play">>,
               was |-> "Stopped"]
    /\ pipeline = 2
    /\ gst_state[2] = "Playing"

\* C6 as stated: a stop command (A) found with a handle calls stop() on that
\* pipeline exactly once and always ends Stopped with the handle dropped,
\* whether stop() succeeded or failed: either stop() returns within the
\* handler, or the main thread waits in it for the streaming thread to leave
\* the callback, which it can do, and the handler ends in the same way then.
C6_StopReleases ==
    [][/\ (last'.ev = "A" /\ pipeline # NoPipeline) =>
            /\ PlaybackState \in {"Playing", "Paused"}
            /\ last'.ops = IF pc = "in_set_state" THEN <<>> ELSE <<"stop">>
            /\ last'.res \in {"ok", "stop_err", "wait"}
            /\ last'.res = "wait" => pc # "in_set_state"
            /\ last'.res # "wait" =>
                  /\ pipeline' = NoPipeline
                  /\ PlaybackState' = "Stopped"
                  /\ pc' = "loop"
            /\ last'.res = "ok" => gst_state'[pipeline] = "Disposed"
            /\ \A p \in Pipes \ {pipeline} : gst_state'[p] = gst_state[p]
       /\ (pc' = "in_set_state" /\ call'.op = "stop") =>
            ~cb'[pipeline'].blocked
    ]_vars

\* C6 witness: stop() was called on the playing pipeline while its streaming
\* thread was inside the callback, and that thread now waits in sender.send
\* on the full channel; the call cannot return, the handle is still held and
\* the loop handles nothing more.
C6_Witness ==
    /\ pc = "in_set_state"
    /\ call.ev = "A"
    /\ call.op = "stop"
    /\ pipeline # NoPipeline
    /\ gst_state[pipeline] = "Playing"
    /\ cb[pipeline].blocked
    /\ Len(chan) = ChanCapacity
    /\ ~ENABLED SetStateReturns

\* C7: pause (D) or stop (A) found with no handle calls no pipeline
\* operation and changes nothing: the handle stays absent and the
\* visualisation mode, the shift flag, the channel, every pipeline and the
\* loop's control flow are as before.
C7_NoOpWhenStopped ==
    [][(last'.ev \in {"A", "D"} /\ pipeline = NoPipeline) =>
         /\ last'.ops = <<>>
         /\ last'.res = "none"
         /\ pipeline' = NoPipeline
         /\ UNCHANGED <<ctlVars, anaVars, chanVars>>
    ]_vars

\* C7 witness: a stop command found the controller Stopped and did nothing,
\* with the mode, the flag and the channel all away from their initial
\* values.
C7_Witness ==
    /\ last = [ev |-> "A", res |-> "none", ops |-> <<>>, was |-> "Stopped"]
    /\ pipeline = NoPipeline
    /\ current_visualisation = "WATERFALL"
    /\ shift_state
    /\ chan # <<>>

\* C8: a successful pause (D) of the held pipeline leaves the controller
\* Paused and a successful play (S) of it leaves it Playing, both on the same
\* pipeline, constructing nothing and leaving every analyzer (cursor and
\* window) as it was; and no step changes the analyzer of a paused pipeline.
C8_PauseResumeSameInstance ==
    [][/\ (last'.ev = "D" /\ pipeline # NoPipeline /\ last'.res = "ok") =>
            /\ pipeline' = pipeline
            /\ PlaybackState' = "Paused"
            /\ last'.ops = IF pc = "in_set_state" THEN <<>> ELSE <<"pause">>
            /\ npipelines' = npipelines
            /\ analyzer' = analyzer
       /\ (last'.ev = "S" /\ pipeline # NoPipeline /\ last'.res = "ok") =>
            /\ pipeline' = pipeline
            /\ PlaybackState' = "Playing"
            /\ last'.ops = <<"play">>
            /\ npipelines' = npipelines
            /\ analyzer' = analyzer
       /\ \A p \in Pipes :
            gst_state[p] = "Paused" => analyzer'[p] = analyzer[p]
    ]_vars

\* C8 witness: a paused pipeline whose window is partly filled has been
\* resumed: it is the pipeline built at startup, and no other was built.
C8_Witness ==
    /\ last = [ev |-> "S", res |-> "ok", ops |-> <<"play">>, was |-> "Paused"]
    /\ pipeline = 1
    /\ npipelines = 1
    /\ gst_state[1] = "Playing"
    /\ analyzer[1].pos > 0
    /\ emitted[1] > 0

\* Pipelines whose streaming thread waits inside sender.send.
BlockedSenders == {p \in Pipes : cb[p].blocked}

\* C9 as stated: while the event loop has not ended, at most one pipeline is live, exactly the held one when the
\* controller is not Stopped and none when it holds no handle, so at most
\* one send waits on the channel.
C9_OneLivePipeline ==
    ~ReceiverDropped =>
        /\ Cardinality(LivePipelines) <= 1
        /\ pipeline # NoPipeline => LivePipelines = {pipeline}
        /\ pipeline = NoPipeline => LivePipelines = {}
        /\ Cardinality(BlockedSenders) <= 1

\* C10: a failed construction, play or pause, at startup or on a key,
\* leaves the controller Stopped with no handle, and the loop goes on as it
\* was: the failure does not tell it to exit, the main thread is not stuck
\* in the failed call, and unless quit was processed before, the next tick
\* and the next commands can be handled.
C10_FailureLeavesStopped ==
    [][last'.res \in {"new_err", "play_err", "pause_err"} =>
         /\ pipeline' = NoPipeline
         /\ PlaybackState' = "Stopped"
         /\ control_flow' = control_flow
         /\ call' = NoCall
         /\ pc' \in {"init", "loop"}
         /\ control_flow' # "Exit" => (ENABLED RenderTick)'
         /\ pc' = "loop" =>
               (ENABLED KeyQ /\ ENABLED KeyK /\ ENABLED KeyA(TRUE))'
    ]_vars

\* C10 witness: pause() failed on the playing pipeline.
C10_Witness ==
    /\ last = [ev |-> "D", res |-> "pause_err", ops |-> <<"pause">>,
               was |-> "Playing"]
    /\ pipeline = NoPipeline

\* C11: a visualisation command (K, W) sets the visualisation mode and
\* changes nothing else: the handle, the playback state, every pipeline, the
\* channel, every analyzer, the shift flag and the loop's control flow are
\* as before; and no play, pause or stop command (S, D, A) changes the mode.
C11_VisualisationOnly ==
    [][/\ last'.ev = "K" => current_visualisation' = "KALEIDOSCOPE"
       /\ last'.ev = "W" => current_visualisation' = "WATERFALL"
       /\ last'.ev \in {"K", "W"} =>
            /\ PlaybackState' = PlaybackState
            /\ UNCHANGED <<pc, control_flow, pipeline, shift_state,
                           npipelines, gst_state, call, anaVars, chanVars>>
       /\ last'.ev \in {"A", "S", "D"} =>
            current_visualisation' = current_visualisation
    ]_vars

\* C11 witness: W has switched the mode away from its initial value while
\* the held pipeline was paused with its window partly filled and frames
\* were queued.
C11_Witness ==
    /\ last = [ev |-> "W", res |-> "none", ops |-> <<>>, was |-> "Paused"]
    /\ current_visualisation = "WATERFALL"
    /\ pipeline # NoPipeline
    /\ gst_state[pipeline] = "Paused"
    /\ analyzer[pipeline].pos > 0
    /\ chan # <<>>

\* Events the closure handles: commands, modifier changes and ticks.
LoopEvents ==
    {"Tick", "Modifiers", "Q", "Close", "A", "S", "D", "K", "W", "Other"}

\* C12 as stated: a quit command (Q or the window's close request) sets the
\* loop to exit whatever the playback state, and once it is set to exit it
\* stays so: no tick or command is handled any more, no frame is received,
\* and the handle, the mode and the shift flag are not touched by a handler
\* again.
C12_QuitTerminal ==
    [][/\ last'.ev \in {"Q", "Close"} =>
            /\ control_flow' = "Exit"
            /\ received' = received
       /\ control_flow = "Exit" =>
            /\ control_flow' = "Exit"
            /\ last'.ev \notin LoopEvents
            /\ received' = received
            /\ last'.ops = <<>>
            /\ UNCHANGED <<current_visualisation, shift_state, npipelines>>
    ]_vars

\* C12 witness: after Q, with the loop set to exit, the closure was handed
\* a stop command and stopped the playing pipeline.
C12_Witness ==
    /\ last = [ev |-> "A", res |-> "ok", ops |-> <<"stop">>, was |-> "Playing"]
    /\ control_flow = "Exit"
    /\ pc = "loop"
    /\ pipeline = NoPipeline

\* C13: the channel never holds more than its capacity; a send starts to
\* wait only on a full channel, and a waiting send keeps waiting, with its
\* frame, until room was made and the frame joins the queue at the back, or
\* until the receiver is dropped; and while the receiver exists every frame
\* produced is either received, queued or in the hands of a waiting send:
\* frames leave the queue only by being received.
C13_BoundedLossless ==
    [][/\ Len(chan') <= ChanCapacity
       /\ \A p \in Pipes :
            /\ (cb'[p].blocked /\ cb'[p] # cb[p]) => Len(chan') = ChanCapacity
            /\ (cb[p].blocked /\ cb'[p] # cb[p]) =>
                  \/ /\ ~ReceiverDropped
                     /\ Len(chan) < ChanCapacity
                     /\ \E i \in 1 .. Len(chan') :
                           /\ chan'[i] = Frame(p, emitted[p] + 1, cb[p].frame,
                                               cb[p].win)
                           /\ \A j \in 1 .. Len(chan) : chan'[j] = chan[j]
                     /\ emitted'[p] >= emitted[p] + 1
                  \/ /\ ReceiverDropped
                     /\ send_errs'[p] = send_errs[p] + 1
       /\ ~ReceiverDropped' =>
            /\ Len(sent') = Len(received') + Len(chan')
            /\ \A p \in Pipes :
                  emitted'[p] = Cardinality({i \in 1 .. Len(sent') :
                                               sent'[i][1] = p})
            /\ \/ chan' = chan
               \/ /\ chan # <<>>
                  /\ chan' = Tail(chan)
                  /\ received' = Append(received, FrameId(Head(chan)))
               \/ /\ Len(chan') > Len(chan)
                  /\ SubSeq(chan', 1, Len(chan)) = chan
    ]_vars

\* C13 witness: a send that had to wait on the full channel has returned
\* after a tick made room, its frame is queued behind the older ones and
\* the channel is full again.
C13_Witness ==
    /\ last.ev = "SendResume"
    /\ last.res = "ok"
    /\ Len(chan) = ChanCapacity
    /\ received # <<>>
    /\ \E p \in Pipes : chan[Len(chan)].src = p /\ chan[Len(chan)].seq = emitted[p]

\* C14: a pass through the tick code (a tick, or a modifier change, which
\* runs the same code) takes at most one frame and does not wait for one:
\* if a frame is queued, the oldest is removed and handed to the waterfall,
\* the rest stays queued; if none is queued the pass completes all the same,
\* the channel and the waterfall's input are as before; either way the loop
\* is back waiting for the next tick (unless it was set to exit before).  A
\* tick can always be taken while the
\* loop runs and is not inside a handler, whatever the channel holds.
C14_TickTakesAtMostOne ==
    [][/\ last'.ev \in {"Tick", "Modifiers"} =>
            /\ IF chan # <<>>
               THEN /\ received' = Append(received, FrameId(Head(chan)))
                    /\ chan' = Tail(chan)
                    /\ last'.res = "frame"
               ELSE /\ received' = received
                    /\ chan' = chan
                    /\ last'.res = "empty"
            /\ Len(received') <= Len(received) + 1
            /\ pc' = "loop"
            /\ control_flow' =
                  IF control_flow = "Exit" THEN "Exit" ELSE "WaitUntil"
       /\ (pc \in {"init", "loop"} /\ control_flow # "Exit") => ENABLED RenderTick
       /\ last'.ev \notin {"Tick", "Modifiers"} =>
            /\ received' = received
            /\ Len(chan') >= Len(chan)
    ]_vars

\* C14 witness: a tick has taken the oldest of several queued frames, the
\* first frame ever received; the others are still queued.
C14_Witness ==
    /\ last.ev = "Tick"
    /\ last.res = "frame"
    /\ Len(received) = 1
    /\ Len(chan) >= 1
    /\ sent = received \o QueuedIds

\* C15: once the receiver is dropped nothing is delivered any more and no
\* send waits: a send attempted then returns Err at once (the callback that
\* ran the FFT ends with one more Err and without waiting), a send that was
\* waiting at that moment can return, with Err; the Err ends the callback,
\* which stores no sample after it; and a producer whose send has failed
\* makes no other attempt: it has one Err for ever and its analyzer, its
\* counts and its streaming thread stay as they are.
C15_SendFailsFast ==
    [][\A p \in Pipes :
         /\ ReceiverDropped =>
              /\ sent' = sent
              /\ chan' = chan
              /\ emitted'[p] = emitted[p]
              /\ cb'[p].blocked => cb'[p] = cb[p]
              /\ cb[p].blocked => ENABLED SendFails(p)
              /\ (cb[p].blocked /\ ~cb'[p].blocked) =>
                    send_errs'[p] = send_errs[p] + 1
              /\ analyzer'[p].pos # analyzer[p].pos
                                       + (ingested'[p] - ingested[p]) =>
                    send_errs'[p] = send_errs[p] + 1
         /\ send_errs'[p] # send_errs[p] =>
              /\ ReceiverDropped
              /\ ~cb'[p].active
              /\ ingested'[p] = ingested[p]
         /\ send_errs'[p] <= 1
         /\ Panicked(p) =>
              /\ analyzer'[p] = analyzer[p]
              /\ cb'[p] = cb[p]
              /\ calls'[p] = calls[p]
              /\ ingested'[p] = ingested[p]
              /\ emitted'[p] = emitted[p]
    ]_vars

\* C15 witness: the loop has ended while the send of a pipeline was waiting
\* on the full channel; that send has returned Err, its frame is not queued
\* and the pipeline has delivered nothing.
C15_Witness ==
    /\ pc = "exited"
    /\ Len(chan) = ChanCapacity
    /\ last = [ev |-> "SendFails", res |-> "send_err", ops |-> <<>>,
               was |-> "Stopped"]
    /\ \E p \in Pipes :
          /\ send_errs[p] = 1
          /\ ~cb[p].blocked
          /\ emitted[p] = 0
          /\ ingested[p] = FFT_SIZE
          /\ \A i \in 1 .. Len(chan) : chan[i].src # p

\* The window the k-th frame of a pipeline (k from 1) must be computed from:
\* samples (k-1)*W .. k*W - 1 of the stream, one per slot, in order.
KthWindow(k) ==
    [first |-> (k - 1) * FFT_SIZE, last |-> k * FFT_SIZE - 1,
     contiguous |-> TRUE]

\* C16: the k-th frame a pipeline sends is computed from the samples
\* (k-1)*W .. k*W - 1 of its stream (k from 1), each slot of the buffer
\* holding, at the FFT, the sample of its position written since the FFT
\* before; and between callbacks the buffer holds, in slots 0 .. pos-1, the
\* samples that follow the last window in order, the first of them (the
\* one whose arrival set off the emission) in slot 0, so that every sample
\* taken belongs to exactly one window (up to the panic of a send that
\* found the receiver gone, which ends the stream).
C16_WindowsPartition ==
    /\ \A i \in 1 .. Len(chan) : chan[i].win = KthWindow(chan[i].seq)
    /\ \A p \in 1 .. npipelines :
          /\ cb[p].blocked => cb[p].win = KthWindow(emitted[p] + 1)
          /\ ~Panicked(p) =>
                /\ analyzer[p].origin =
                      Store(NoOrigin, 0, analyzer[p].pos,
                            <<FramesProduced(p) * FFT_SIZE>>)
                /\ ingested[p] = FramesProduced(p) * FFT_SIZE + analyzer[p].pos

\* C16 witness: the second frame of pipeline 1 is queued, computed from
\* samples 800 .. 1599, and sample 1600, whose arrival in a second callback
\* set it off, is alone in the buffer, in slot 0.
C16_Witness ==
    /\ calls[1] = 2
    /\ ingested[1] = 2 * FFT_SIZE + 1
    /\ analyzer[1].pos = 1
    /\ SlotOrigin(analyzer[1].origin, 1) = 2 * FFT_SIZE
    /\ \E i \in 1 .. Len(chan) :
          /\ chan[i].src = 1
          /\ chan[i].seq = 2
          /\ chan[i].win.first = FFT_SIZE

\* C17 as stated: between ingest operations the cursor is at least 0 and
\* below W.
C17_PosBelowW ==
    \A p \in Pipes :
        /\ analyzer[p].pos >= 0
        /\ analyzer[p].pos < FFT_SIZE

\* C17 amended: between ingest operations the cursor is at least 0 and at
\* most W.  It is W from the store that fills the last slot until the next
\* sample arrives; that arrival sets it to 0, after the FFT and before the
\* send, and the sample is stored next: so the cursor is 0 only before the first
\* sample and while (or after) a send has not returned Ok, and otherwise,
\* after n samples, it is ((n - 1) mod W) + 1.
C17_PosAtMostW ==
    \A p \in Pipes :
        /\ analyzer[p].pos >= 0
        /\ analyzer[p].pos <= FFT_SIZE
        /\ analyzer[p].pos = 0 =>
              ingested[p] = 0 \/ cb[p].blocked \/ Panicked(p)
        /\ (cb[p].blocked \/ Panicked(p)) => analyzer[p].pos = 0
        /\ (ingested[p] > 0 /\ ~cb[p].blocked /\ ~Panicked(p)) =>
              analyzer[p].pos = ((ingested[p] - 1) % FFT_SIZE) + 1

\* C17 witness: the cursor is W, after a reset: the second window is full
\* and its frame is not yet computed.
C17_Witness ==
    /\ analyzer[1].pos = FFT_SIZE
    /\ emitted[1] = 1
    /\ ingested[1] = 2 * FFT_SIZE
    /\ SlotOrigin(analyzer[1].origin, FFT_SIZE) = 2 * FFT_SIZE - 1
    /\ ~cb[1].blocked

\* C18 as stated: no state is a deadlock of the two threads: the render
\* thread is never inside stop() or pause() on a pipeline whose streaming
\* thread waits in send (a stop command given while the callback waits in
\* send completes), and while a send waits on the full channel and the loop
\* runs, the loop can take its next tick or the call it is in can return.
C18_NoDeadlock ==
    \A p \in BlockedSenders :
        /\ ~(pc = "in_set_state" /\ pipeline = p)
        /\ (pc \in {"init", "loop", "in_set_state"} /\ control_flow # "Exit") =>
              ENABLED RenderTick \/ ENABLED SetStateReturns

\* C18 witness: the render thread is inside stop() on the held pipeline,
\* whose streaming thread waits in send on the full channel for the render
\* thread to receive; the loop had been receiving frames until then.
C18_Witness ==
    /\ pc = "in_set_state"
    /\ call.op = "stop"
    /\ pipeline \in BlockedSenders
    /\ ChannelFull(chan)
    /\ received # <<>>
    /\ ~ENABLED RenderTick
    /\ ~ENABLED SetStateReturns
    /\ ~ENABLED SendResume(pipeline)

\* C19: fft_buffer is never written at an index of W or more (hi is the
\* highest index written, from 0), and the cursor never exceeds W, whatever
\* the samples and however the stream is cut into buffers.
C19_WritesInBounds ==
    \A p \in Pipes :
        /\ analyzer[p].hi < FFT_SIZE
        /\ analyzer[p].hi >= NoSample
        /\ analyzer[p].pos <= FFT_SIZE
        /\ analyzer[p].pos <= analyzer[p].hi + 1

\* C19 witness: the last slot has been written, with the least 16-bit value,
\* the first one holds the greatest, and the cursor is W; the samples came
\* in two buffers.
C19_Witness ==
    /\ analyzer[1].hi = FFT_SIZE - 1
    /\ analyzer[1].pos = FFT_SIZE
    /\ At(analyzer[1].fft_buffer, 1) = ComplexOf(32767)
    /\ At(analyzer[1].fft_buffer, FFT_SIZE) = ComplexOf(-32768)
    /\ calls[1] = 2

\* C20 as stated: with ticks scheduled fairly, the n-th frame sent is in the
\* end the n-th frame received, for every n, unless quit is processed first.
C20_EveryFrameReceived ==
    \A n \in 1 .. MaxPipelines * MaxCallbacks * 2 :
        (Len(sent) >= n) ~> (Len(received) >= n \/ control_flow = "Exit")

\* C20 witness: frames of a pipeline that has since been stopped are still
\* queued, quit has not been processed, and the render thread is inside
\* stop() on the next pipeline, whose streaming thread waits in send: no
\* tick will come to receive them.
C20_Witness ==
    /\ pc = "in_set_state"
    /\ control_flow # "Exit"
    /\ pipeline \in BlockedSenders
    /\ \E i \in 1 .. Len(chan) :
          /\ chan[i].src # pipeline
          /\ gst_state[chan[i].src] = "Disposed"

====
